---- MODULE Spec2Model ----
(***************************************************************************)
(* Model of src/meta/mod.rs of lsd: Meta::from_path, Meta::recurse_into,   *)
(* Meta::calculate_total_size and Meta::calculate_total_file_size, run     *)
(* against a small filesystem with symlinks and injected I/O failures.     *)
(*                                                                         *)
(* An Option<T> is a sequence of length 0 (None) or 1 (Some).  A path is   *)
(* the sequence of its components: node ids, or DotDot for "..".  The      *)
(* build is the cfg(unix) one: is_system is always false.                  *)
(***************************************************************************)
EXTENDS Integers, Sequences, FiniteSets, TLC

\* ------------------------------------------------------------------ bounds
\* Number of entries below the root directory.
MaxNodes == 2
\* Largest depth limit handed to recurse_into.
MaxDepth == 2
\* Symlink hops stat follows before it gives up (ELOOP).
MaxHops == 3

\* ------------------------------------------------------------ filesystem
Missing == -1
DotDot == -2
NoMeta == -3

None == <<>>
Some(v) == <<v>>

Kinds == {"File", "Dir", "Link"}
\* The first character class of a name: plain, dot-file, or one the
\* ignore-glob matcher accepts.
Prefixes == {"f", ".", "ig"}
\* A failure injected at one node: of lstat on it, of reading its directory
\* entry, of DirEntry::file_type on it, of opening it as a directory, of
\* lstat on its "..".
Faults == {"lstat", "dirent", "ftype", "open", "dotdot"}
LinkTargets == {Missing, 0, 1}

\* What one entry can be: name class, kind, symlink target, injected failure.
Shape(pre, k, t, ft) == [pre |-> pre, kind |-> k, target |-> t, fault |-> ft]
AllShapes ==
    {sh \in [pre : Prefixes, kind : Kinds, target : LinkTargets,
             fault : Faults \cup {"none"}] :
        /\ sh.kind # "Link" => sh.target = Missing
        /\ sh.fault \in {"open", "dotdot"} => sh.kind = "Dir"}
\* Symlinks and dot-files, no failures.
LinkShapes ==
    {sh \in AllShapes :
        /\ sh.fault = "none"
        /\ sh.pre = "f" \/ (sh.pre = "." /\ sh.kind # "Dir" /\ sh.target = Missing)}
\* Plain files and directories with every failure.
FaultShapes ==
    {sh \in AllShapes :
        /\ sh.pre = "f"
        /\ \/ sh.kind = "File" /\ sh.fault \notin {"open", "dotdot"}
           \/ sh.kind = "Dir" /\ sh.fault \in {"none", "open", "dotdot"}}
\* Ignored, hidden and plain names; failures on and below ignored entries.
NameShapes ==
    {sh \in AllShapes :
        \/ sh.pre \in {"f", "ig"} /\ sh.kind # "Link" /\ sh.fault = "none"
        \/ sh.pre = "ig" /\ sh.kind = "File" /\ sh.fault = "lstat"
        \/ sh.pre = "ig" /\ sh.kind = "Dir" /\ sh.fault = "open"
        \/ sh.pre = "f" /\ sh.kind = "File" /\ sh.fault = "dirent"}

Root == 0
RootPath == <<Root>>

Ids(f) == DOMAIN f

\* metadata.len() of a node: distinct powers of two, so that a sum tells
\* which nodes went into it.
RECURSIVE Pow2(_)
Pow2(n) == IF n = 0 THEN 1 ELSE 2 * Pow2(n - 1)
LenOf(n) == Pow2(n)

\* stat(2) on node n: follows symlinks; NoMeta when the chain is broken,
\* loops, or ends at a node that cannot be stat-ed.
RECURSIVE Follow(_, _, _)
Follow(f, n, hops) ==
    IF n \notin Ids(f) THEN NoMeta
    ELSE IF f[n].fault = "lstat" THEN NoMeta
    ELSE IF f[n].kind = "Link"
         THEN IF hops = 0 THEN NoMeta ELSE Follow(f, f[n].target, hops - 1)
         ELSE n

Last(s) == s[Len(s)]
Front(s) == SubSeq(s, 1, Len(s) - 1)

\* The node a path names, its last component not followed.
RECURSIVE NodeOf(_, _)
NodeOf(f, path) ==
    IF Last(path) = DotDot
    THEN LET d == Follow(f, NodeOf(f, Front(path)), MaxHops)
         IN IF d = NoMeta THEN NoMeta
            ELSE IF f[d].fault = "dotdot" THEN NoMeta ELSE f[d].parent
    ELSE Last(path)

\* Path::symlink_metadata: the node whose metadata is returned, or NoMeta.
symlink_metadata(f, path) ==
    LET n == NodeOf(f, path)
    IN IF n = NoMeta THEN NoMeta
       ELSE IF f[n].fault = "lstat" THEN NoMeta ELSE n

\* Path::metadata: as symlink_metadata, symlinks followed.
metadata(f, path) ==
    LET n == NodeOf(f, path)
    IN IF n = NoMeta THEN NoMeta ELSE Follow(f, n, MaxHops)

\* The children of directory d in directory order.
ChildrenOf(f, d) ==
    SelectSeq([i \in 1..(Cardinality(Ids(f)) - 1) |-> i],
              LAMBDA i: f[i].parent = d /\ f[i].listed)

\* Path::read_dir: the directory stream, each item Ok(DirEntry) or Err.
read_dir(f, path) ==
    LET d == metadata(f, path)
    IN IF d = NoMeta THEN [ok |-> FALSE, entries |-> <<>>]
       ELSE IF f[d].kind # "Dir" \/ f[d].fault = "open"
            THEN [ok |-> FALSE, entries |-> <<>>]
            ELSE [ok |-> TRUE,
                  entries |-> [k \in 1..Len(ChildrenOf(f, d)) |->
                      LET c == ChildrenOf(f, d)[k]
                      IN [ok |-> f[c].fault # "dirent",
                          path |-> Append(path, c)]]]

\* DirEntry::file_type: not following symlinks.
entry_file_type(f, path) ==
    LET c == Last(path)
    IN [ok |-> f[c].fault # "ftype", is_dir |-> f[c].kind = "Dir"]

\* Path::file_name of an entry's path.
file_name(f, path) == f[Last(path)].name

\* ------------------------------------------------------------------ flags
Displays == {"VisibleOnly", "AlmostAll", "All", "SystemProtected", "DirectoryOnly"}
Layouts == {"OneLine", "Tree", "Grid"}
IgnoreGlobs == {"ig"}
FlagSet == [dereference : BOOLEAN, display : Displays, layout : Layouts,
            ignore_globs : {IgnoreGlobs}]

\* flags.ignore_globs.0.is_match(name)
is_match_nothing(globs, name) == FALSE
is_match(globs, name) == name[1] \in globs

\* name.to_string_lossy().starts_with('.')
is_hidden(name) == name[1] = "."
is_system == FALSE

\* ExitCode::set_if_greater
Rank(code) == IF code = "OK" THEN 0 ELSE 1
set_if_greater(code, other) == IF Rank(other) > Rank(code) THEN other ELSE code

\* ------------------------------------------------------------- from_path
\* FileType::new(&metadata, symlink_meta, ..): classified from the chosen
\* metadata; a symlink's is_dir comes from symlink_meta.
FileType_new(f, md, symlink_meta) ==
    IF f[md].kind = "Dir" THEN [tag |-> "Directory", is_dir |-> FALSE]
    ELSE IF f[md].kind = "Link"
         THEN [tag |-> "SymLink",
               is_dir |-> IF symlink_meta = NoMeta THEN FALSE
                          ELSE f[symlink_meta].kind = "Dir"]
         ELSE [tag |-> "File", is_dir |-> FALSE]

\* The broken_link flag of from_path.
broken_link_dropping_dereference(is_symlink, target, dereference) ==
    is_symlink /\ target = NoMeta
broken_link(is_symlink, target, dereference) ==
    is_symlink /\ target = NoMeta /\ dereference

\* Ok(Self { .. }): the record built from the chosen metadata md.
new_meta(f, path, lst, md, symlink_meta, broken) ==
    [ok |-> TRUE,
     meta |-> [name |-> IF Last(path) = DotDot THEN <<"..">>
                        ELSE file_name(f, path),
               path |-> path,
               file_type |-> FileType_new(f, md, symlink_meta),
               inode |-> IF broken THEN None ELSE Some(md),
               links |-> IF broken THEN None ELSE Some(md),
               size |-> IF broken THEN None ELSE Some(LenOf(md)),
               date |-> IF broken THEN None ELSE Some(md),
               owner |-> IF broken THEN None ELSE Some(md),
               permissions |-> IF broken THEN None ELSE Some(md),
               access_control |-> IF broken THEN None ELSE Some(lst),
               content |-> None]]

\* The body of from_path once symlink_metadata (lst) and, for a symlink,
\* metadata (target) have returned.
from_metadata(f, path, dereference, lst, is_symlink, target) ==
    new_meta(f, path, lst,
             IF is_symlink /\ target # NoMeta /\ dereference THEN target ELSE lst,
             IF is_symlink /\ target # NoMeta /\ ~dereference THEN target ELSE NoMeta,
             broken_link(is_symlink, target, dereference))

from_lstat(f, path, dereference, lst) ==
    IF lst = NoMeta THEN [ok |-> FALSE]
    ELSE from_metadata(f, path, dereference, lst, f[lst].kind = "Link",
                       IF f[lst].kind = "Link" THEN metadata(f, path) ELSE NoMeta)

from_path(f, path, dereference) ==
    from_lstat(f, path, dereference, symlink_metadata(f, path))

\* ---------------------------------------------------------- recurse_into
Ok(content, code, errs) ==
    [ok |-> TRUE, content |-> content, code |-> code, errs |-> errs]
Err(errs) ==
    [ok |-> FALSE, content |-> None, code |-> "OK", errs |-> errs]

\* match self.file_type: whether the record is expanded at all.
eligible_in_any_layout(file_type, layout) ==
    \/ file_type.tag = "Directory"
    \/ file_type.tag = "SymLink" /\ file_type.is_dir
eligible(file_type, layout) ==
    \/ file_type.tag = "Directory"
    \/ file_type.tag = "SymLink" /\ file_type.is_dir /\ layout # "OneLine"

\* Whether "." and ".." are pushed first.
synthesize_dots(fl) ==
    fl.display \in {"All", "SystemProtected"} /\ fl.layout # "Tree"

\* match flags.display: the visibility filter of one entry.
filtered(display, name) ==
    \/ display \in {"All", "AlmostAll"} /\ is_system
    \/ display = "VisibleOnly" /\ (is_hidden(name) \/ is_system)

\* if depth == 0: the depth limit is used up.
depth_exhausted_late(dp) == dp < 0
depth_exhausted(dp) == dp = 0

\* let entry = entry?: an item of the directory stream that is an Err.
entry_error_skipped(entry) == FALSE
entry_error(entry) == ~entry.ok

\* check dereferencing: whether the child is handed to recurse_into.
should_recurse_always(dereference, file_type) == TRUE
should_recurse(dereference, file_type) ==
    dereference \/ file_type.tag # "SymLink"

\* The depth handed to a child's recurse_into.
child_depth(dp) == dp - 1

\* The Err arm of the child's recursion: report, MinorIssue, continue.
on_recursion_error_keeping_child(content, entry_meta) ==
    Append(content, entry_meta)
on_recursion_error(content, entry_meta) == content

\* The merge of a child's exit code into the directory's.
merge_exit_code_dropped(code, rec_code) == code
merge_exit_code(code, rec_code) == set_if_greater(code, rec_code)

RECURSIVE recurse_into(_, _, _, _)
RECURSIVE entries_loop(_, _, _, _, _, _, _, _)
RECURSIVE entry_resolved(_, _, _, _, _, _, _, _, _)
RECURSIVE entry_recursed(_, _, _, _, _, _, _, _, _, _)

\* for entry in entries: the steps up to Self::from_path(&path, ..).
entries_loop(f, entries, i, content, exit_code, errs, dp, fl) ==
    IF i > Len(entries) THEN Ok(Some(content), exit_code, errs)
    ELSE IF entry_error(entries[i]) THEN Err(errs)
    ELSE IF is_match(fl.ignore_globs, file_name(f, entries[i].path))
    THEN entries_loop(f, entries, i + 1, content, exit_code, errs, dp, fl)
    ELSE IF filtered(fl.display, file_name(f, entries[i].path))
    THEN entries_loop(f, entries, i + 1, content, exit_code, errs, dp, fl)
    ELSE entry_resolved(f, entries, i, content, exit_code, errs, dp, fl,
                        from_path(f, entries[i].path, fl.dereference))

\* The steps of the loop body after from_path returned r.
entry_resolved(f, entries, i, content, exit_code, errs, dp, fl, r) ==
    IF ~r.ok
    THEN entries_loop(f, entries, i + 1, content,
                      set_if_greater(exit_code, "MinorIssue"),
                      Append(errs, entries[i].path), dp, fl)
    ELSE IF /\ fl.layout = "Tree" /\ fl.display = "DirectoryOnly"
            /\ ~entry_file_type(f, entries[i].path).ok
    THEN Err(errs)
    ELSE IF /\ fl.layout = "Tree" /\ fl.display = "DirectoryOnly"
            /\ ~entry_file_type(f, entries[i].path).is_dir
    THEN entries_loop(f, entries, i + 1, content, exit_code, errs, dp, fl)
    ELSE IF should_recurse(fl.dereference, r.meta.file_type)
    THEN entry_recursed(f, entries, i, content, exit_code, errs, dp, fl, r.meta,
                        recurse_into(f, r.meta, child_depth(dp), fl))
    ELSE entries_loop(f, entries, i + 1, Append(content, r.meta),
                      exit_code, errs, dp, fl)

\* match entry_meta.recurse_into(depth - 1, flags), then content.push.
entry_recursed(f, entries, i, content, exit_code, errs, dp, fl, entry_meta, rec) ==
    IF rec.ok
    THEN entries_loop(f, entries, i + 1,
                      Append(content, [entry_meta EXCEPT !.content = rec.content]),
                      merge_exit_code(exit_code, rec.code),
                      errs \o rec.errs, dp, fl)
    ELSE entries_loop(f, entries, i + 1,
                      on_recursion_error(content, entry_meta),
                      set_if_greater(exit_code, "MinorIssue"),
                      Append(errs \o rec.errs, entries[i].path), dp, fl)

\* The "." and ".." records, once from_path on the parent returned.
with_dots(f, self, dp, fl, entries, parent) ==
    IF ~parent.ok THEN Err(<<>>)
    ELSE entries_loop(f, entries, 1,
                      <<[self EXCEPT !.name = <<".">>],
                        [parent.meta EXCEPT !.name = <<"..">>]>>,
                      "OK", <<>>, dp, fl)

\* recurse_into once self.path.read_dir() returned rd.
expand_dir(f, self, dp, fl, rd) ==
    IF ~rd.ok THEN Ok(None, "MinorIssue", <<self.path>>)
    ELSE IF synthesize_dots(fl)
    THEN with_dots(f, self, dp, fl, rd.entries,
                   from_path(f, Append(self.path, DotDot), fl.dereference))
    ELSE entries_loop(f, rd.entries, 1, <<>>, "OK", <<>>, dp, fl)

recurse_into(f, self, dp, fl) ==
    IF depth_exhausted(dp) THEN Ok(None, "OK", <<>>)
    ELSE IF fl.display = "DirectoryOnly" /\ fl.layout # "Tree"
    THEN Ok(None, "OK", <<>>)
    ELSE IF ~eligible(self.file_type, fl.layout) THEN Ok(None, "OK", <<>>)
    ELSE expand_dir(f, self, dp, fl, read_dir(f, self.path))

\* ------------------------------------------------- calculate_total_size
RECURSIVE calculate_total_file_size(_, _)
RECURSIVE file_size_loop(_, _, _, _, _, _)

\* What a directory that cannot be opened contributes: return size.
unreadable_dir_size_zero(size) == 0
unreadable_dir_size(size) == size

add_sub(f, path, entries, i, size, errs, sub) ==
    file_size_loop(f, path, entries, i + 1, size + sub.size, errs \o sub.errs)

\* for entry in entries: size += calculate_total_file_size(&path).
file_size_loop(f, path, entries, i, size, errs) ==
    IF i > Len(entries) THEN [size |-> size, errs |-> errs]
    ELSE IF ~entries[i].ok
    THEN file_size_loop(f, path, entries, i + 1, size, Append(errs, path))
    ELSE add_sub(f, path, entries, i, size, errs,
                 calculate_total_file_size(f, entries[i].path))

dir_size(f, path, md, rd) ==
    IF ~rd.ok
    THEN [size |-> unreadable_dir_size(LenOf(md)), errs |-> <<path>>]
    ELSE file_size_loop(f, path, rd.entries, 1, LenOf(md), <<>>)

file_size_of(f, path, md) ==
    IF md = NoMeta THEN [size |-> 0, errs |-> <<path>>]
    ELSE IF f[md].kind = "File" THEN [size |-> LenOf(md), errs |-> <<>>]
    ELSE IF f[md].kind = "Dir" THEN dir_size(f, path, md, read_dir(f, path))
    ELSE [size |-> 0, errs |-> <<>>]

calculate_total_file_size(f, path) ==
    file_size_of(f, path, symlink_metadata(f, path))

get_bytes(size) == IF size = None THEN 0 ELSE size[1]

RECURSIVE calculate_total_size(_, _)
RECURSIVE total_size_loop(_, _, _, _, _)

add_child(f, metas, i, acc, errs, x) ==
    total_size_loop(f, [metas EXCEPT ![i] = x.meta], i + 1,
                    acc + get_bytes(x.meta.size), errs \o x.errs)

\* for x in metas.iter_mut(): the finalized children, the sum, and the
\* errors the fallback walks reported.
total_size_loop(f, metas, i, acc, errs) ==
    IF i > Len(metas) THEN [metas |-> metas, size |-> acc, errs |-> errs]
    ELSE add_child(f, metas, i, acc, errs, calculate_total_size(f, metas[i]))

sized_from_content(self, r) ==
    [meta |-> [self EXCEPT !.content = Some(r.metas), !.size = Some(r.size)],
     errs |-> r.errs]

sized_from_walk(self, w) ==
    [meta |-> [self EXCEPT !.size = Some(w.size)], errs |-> w.errs]

calculate_total_size(f, self) ==
    IF self.size = None THEN [meta |-> self, errs |-> <<>>]
    ELSE IF self.file_type.tag = "Directory"
    THEN IF self.content # None
         THEN sized_from_content(self,
                  total_size_loop(f, self.content[1], 1, get_bytes(self.size), <<>>))
         ELSE sized_from_walk(self, calculate_total_file_size(f, self.path))
    ELSE [meta |-> self, errs |-> <<>>]

\* ---------------------------------------------------------- state machine
VARIABLES
    fs,       \* node id -> [parent, name, kind, target, fault, listed]
    phase,    \* "build", "resolved", "failed", "expanded", "aborted", "sized"
    flags,    \* the Flags of the run
    depth,    \* the depth handed to recurse_into
    meta,     \* the record of the listed path
    exit,     \* the ExitCode recurse_into returned
    stderr    \* the paths print_error! reported, in order

vars == <<fs, phase, flags, depth, meta, exit, stderr>>

NoFlags == [dereference |-> FALSE, display |-> "VisibleOnly",
            layout |-> "Grid", ignore_globs |-> IgnoreGlobs]
NoRecord == [path |-> <<>>]

RootNode(rf) == [parent |-> Root, name |-> <<"/", 0>>, kind |-> "Dir",
                 target |-> Missing, fault |-> rf, listed |-> FALSE]

InitWith(rootFaults) ==
    /\ \E rf \in rootFaults : fs = [n \in {Root} |-> RootNode(rf)]
    /\ phase = "build"
    /\ flags = NoFlags
    /\ depth = 0
    /\ meta = NoRecord
    /\ exit = "OK"
    /\ stderr = <<>>

Init == InitWith({"none", "lstat"})

\* The environment creates one more entry, of one of the given shapes.
AddEntry(shapes) ==
    /\ phase = "build"
    /\ Cardinality(Ids(fs)) - 1 < MaxNodes
    /\ LET n == Cardinality(Ids(fs))
       IN \E p \in {d \in Ids(fs) : fs[d].kind = "Dir"}, sh \in shapes :
            fs' = [i \in Ids(fs) \cup {n} |->
                     IF i = n
                     THEN [parent |-> p, name |-> <<sh.pre, n>>,
                           kind |-> sh.kind, target |-> sh.target,
                           fault |-> sh.fault, listed |-> TRUE]
                     ELSE fs[i]]
    /\ UNCHANGED <<phase, flags, depth, meta, exit, stderr>>

\* The paths the caller may list: the root, or the first entry below it.
StartPaths(f) == {RootPath} \cup {<<Root, c>> : c \in {1} \cap {i \in Ids(f) : f[i].parent = Root}}

Resolved(fl, r) ==
    /\ flags' = fl
    /\ IF r.ok
       THEN phase' = "resolved" /\ meta' = r.meta
       ELSE phase' = "failed" /\ meta' = NoRecord

\* The caller resolves the listed path with the run's dereference flag.
Resolve(wholeTreeOnly) ==
    /\ phase = "build"
    /\ \E d \in BOOLEAN, start \in StartPaths(fs) :
          /\ wholeTreeOnly => start = RootPath
          /\ Resolved([NoFlags EXCEPT !.dereference = d], from_path(fs, start, d))
    /\ UNCHANGED <<fs, depth, exit, stderr>>

Expanded(fl, dp, r) ==
    /\ flags' = fl
    /\ depth' = dp
    /\ stderr' = stderr \o r.errs
    /\ IF r.ok
       THEN /\ phase' = "expanded"
            /\ meta' = [meta EXCEPT !.content = r.content]
            /\ exit' = r.code
       ELSE /\ phase' = "aborted"
            /\ UNCHANGED <<meta, exit>>

\* The caller expands the record and, on Ok, attaches the content.
Expand ==
    /\ phase = "resolved"
    /\ \E fl \in FlagSet, dp \in 0..MaxDepth :
          /\ fl.dereference = flags.dereference
          /\ Expanded(fl, dp, recurse_into(fs, meta, dp, fl))
    /\ UNCHANGED fs

Finalized(r) ==
    /\ meta' = r.meta
    /\ stderr' = stderr \o r.errs

\* The caller finalizes the sizes.
Finalize ==
    /\ phase = "expanded"
    /\ Finalized(calculate_total_size(fs, meta))
    /\ phase' = "sized"
    /\ UNCHANGED <<fs, flags, depth, exit>>

Next == AddEntry(AllShapes) \/ Resolve(FALSE) \/ Expand \/ Finalize
Spec == Init /\ [][Next]_vars

NextLinks == AddEntry(LinkShapes) \/ Resolve(FALSE) \/ Expand \/ Finalize
SpecLinks == InitWith({"none"}) /\ [][NextLinks]_vars

NextFaults == AddEntry(FaultShapes) \/ Resolve(TRUE) \/ Expand \/ Finalize
SpecFaults == InitWith({"none", "lstat"}) /\ [][NextFaults]_vars

NextNames == AddEntry(NameShapes) \/ Resolve(TRUE) \/ Expand \/ Finalize
SpecNames == InitWith({"none"}) /\ [][NextNames]_vars

\* ------------------------------------------------------- claim vocabulary
SetOf(seq) == {seq[i] : i \in DOMAIN seq}

\* Every record of a tree with its level below the tree's root record.
RECURSIVE Leveled(_, _)
Leveled(m, lvl) ==
    {<<m, lvl>>} \cup
    (IF m.content = None THEN {}
     ELSE UNION {Leveled(m.content[1][k], lvl + 1) : k \in DOMAIN m.content[1]})

IsPseudo(r) == r.name \in {<<".">>, <<"..">>}
Ran == phase \in {"expanded", "sized"}

TreeD(fl) == fl.layout = "Tree" /\ fl.display = "DirectoryOnly"

\* A record of this type would be opened as a directory with dp levels left.
Expandable(ft, dp, fl) ==
    /\ dp > 0
    /\ ~(fl.display = "DirectoryOnly" /\ fl.layout # "Tree")
    /\ \/ ft.tag = "Directory"
       \/ ft.tag = "SymLink" /\ ft.is_dir /\ fl.layout # "OneLine"

\* The entry was read, passes the glob and the visibility filter, and resolves.
EntryReaches(f, e, fl) ==
    /\ e.ok
    /\ f[Last(e.path)].name[1] \notin fl.ignore_globs
    /\ ~(fl.display = "VisibleOnly" /\ f[Last(e.path)].name[1] = ".")
    /\ f[Last(e.path)].fault # "lstat"

\* Expanding the record at path meets a failure that recurse_into returns
\* as Err: an unreadable entry, an unresolvable "..", a failed type query.
Aborts(f, path, ft, dp, fl) ==
    /\ Expandable(ft, dp, fl)
    /\ read_dir(f, path).ok
    /\ \/ /\ fl.display \in {"All", "SystemProtected"}
          /\ fl.layout # "Tree"
          /\ symlink_metadata(f, Append(path, DotDot)) = NoMeta
       \/ \E e \in SetOf(read_dir(f, path).entries) :
             \/ ~e.ok
             \/ TreeD(fl) /\ EntryReaches(f, e, fl)
                          /\ f[Last(e.path)].fault = "ftype"

\* The entry reaches the dereferencing check and its own expansion, with
\* dp levels left, is attempted and returns Err.
ChildAborts(f, e, dp, fl) ==
    /\ EntryReaches(f, e, fl)
    /\ TreeD(fl) => f[Last(e.path)].kind = "Dir"
    /\ LET ft == from_path(f, e.path, fl.dereference).meta.file_type
       IN /\ fl.dereference \/ ft.tag # "SymLink"
          /\ Aborts(f, e.path, ft, dp, fl)

ChildKept(f, e, dp, fl) ==
    /\ EntryReaches(f, e, fl)
    /\ TreeD(fl) => f[Last(e.path)].kind = "Dir"
    /\ ~ChildAborts(f, e, dp, fl)

\* The record was handed to recurse_into: the listed record, or a child past
\* the dereferencing check.
Attempted(r, lvl) ==
    /\ ~IsPseudo(r)
    /\ lvl = 0 \/ flags.dereference \/ r.file_type.tag # "SymLink"

\* ---------------------------------------------------------------- C1
AttrSet(r) == {r.inode, r.links, r.size, r.date, r.owner, r.permissions,
               r.access_control}
AllSome(r) == \A a \in AttrSet(r) : a # None
AllNone(r) == \A a \in AttrSet(r) : a = None
BrokenUnderDereference(path) ==
    /\ fs[NodeOf(fs, path)].kind = "Link"
    /\ metadata(fs, path) = NoMeta
    /\ flags.dereference

\* C1: in every record from_path produced, and in every record of the tree
\* after recurse_into and calculate_total_size, the seven optional
\* attributes are all present or all absent, and they are absent exactly
\* when the path is a symlink whose target cannot be stat-ed and
\* dereference is true.
InvC1 ==
    phase \in {"resolved", "expanded", "aborted", "sized"} =>
        \A x \in Leveled(meta, 0) :
            /\ AllSome(x[1]) \/ AllNone(x[1])
            /\ AllNone(x[1]) <=> BrokenUnderDereference(x[1].path)

WitC1 ==
    /\ phase = "sized"
    /\ \E x, y \in Leveled(meta, 0) :
          /\ x[2] >= 1 /\ AllNone(x[1])
          /\ y[2] >= 1 /\ AllSome(y[1]) /\ y[1].content # None

\* ---------------------------------------------------------------- C2
\* C2 as stated: no failure met while expanding a directory makes
\* recurse_into return Err.
CexC2 == phase # "aborted"

\* C2 amended: recurse_into returns Err exactly when, in the directory it
\* expands itself, an entry cannot be read, ".." cannot be resolved or a
\* child's type cannot be queried; a failed directory open leaves the record
\* childless with MinorIssue, and a directory that was expanded holds
\* exactly the entries that resolve and whose own expansion did not return
\* Err (the siblings of a failed child are processed).
InvC2 ==
    phase \in {"expanded", "aborted", "sized"} =>
        /\ phase = "aborted" <=>
               Aborts(fs, meta.path, meta.file_type, depth, flags)
        /\ phase # "aborted" =>
              \A x \in Leveled(meta, 0) :
                 LET r == x[1]
                     lvl == x[2]
                 IN IF r.content # None
                    THEN {c.path : c \in {c \in SetOf(r.content[1]) : ~IsPseudo(c)}}
                         = {e.path : e \in
                              {e \in SetOf(read_dir(fs, r.path).entries) :
                                  ChildKept(fs, e, depth - lvl - 1, flags)}}
                    ELSE (Attempted(r, lvl)
                          /\ Expandable(r.file_type, depth - lvl, flags))
                         => /\ ~read_dir(fs, r.path).ok
                            /\ exit = "MinorIssue"
                            /\ r.path \in SetOf(stderr)

WitC2 ==
    /\ phase = "expanded"
    /\ exit = "MinorIssue"
    /\ meta.content # None
    /\ \E c \in Ids(fs) :
          /\ fs[c].parent = Root /\ fs[c].fault = "lstat"
          /\ \E r \in SetOf(meta.content[1]) :
                ~IsPseudo(r) /\ Last(r.path) > c

\* ---------------------------------------------------------------- C3
\* Some expanded record of the tree has an entry whose own expansion
\* returned Err.
FailedRecursions ==
    {y \in UNION {{<<x[1], e>> : e \in SetOf(read_dir(fs, x[1].path).entries)} :
                    x \in {x \in Leveled(meta, 0) : x[1].content # None}} :
        \E x \in Leveled(meta, 0) :
            x[1] = y[1] /\ ChildAborts(fs, y[2], depth - x[2] - 1, flags)}

\* C3 as stated: a child whose expansion returned Err is reported, counts as
\* MinorIssue and is still in the parent's content, childless.
CexC3 ==
    Ran => \A y \in FailedRecursions :
              /\ exit = "MinorIssue"
              /\ \E c \in SetOf(y[1].content[1]) :
                    c.path = y[2].path /\ c.content = None

\* C3 amended: a child whose expansion returned Err is reported, counts as
\* MinorIssue and is left out of the parent's content.
InvC3 ==
    Ran => \A y \in FailedRecursions :
              /\ exit = "MinorIssue"
              /\ y[2].path \in SetOf(stderr)
              /\ \A c \in SetOf(y[1].content[1]) : c.path # y[2].path

WitC3 == phase = "expanded" /\ FailedRecursions # {}

\* ---------------------------------------------------------------- C4
\* A directory open or a child resolution failed somewhere in the tree, or
\* a child's expansion returned Err.
AnyFailure ==
    \E x \in Leveled(meta, 0) :
        LET r == x[1]
            lvl == x[2]
        IN IF r.content = None
           THEN /\ Attempted(r, lvl)
                /\ Expandable(r.file_type, depth - lvl, flags)
                /\ ~read_dir(fs, r.path).ok
           ELSE \E e \in SetOf(read_dir(fs, r.path).entries) :
                   \/ /\ e.ok
                      /\ ~is_match(flags.ignore_globs, file_name(fs, e.path))
                      /\ ~filtered(flags.display, file_name(fs, e.path))
                      /\ symlink_metadata(fs, e.path) = NoMeta
                   \/ ChildAborts(fs, e, depth - lvl - 1, flags)

\* C4: the severity recurse_into returns is OK or MinorIssue; it is
\* MinorIssue whenever a directory open or a child's resolution or
\* expansion failed anywhere in the expanded tree, and OK when nothing was
\* reported.
InvC4 ==
    Ran => /\ exit \in {"OK", "MinorIssue"}
           /\ AnyFailure => exit = "MinorIssue"
           /\ phase = "expanded" => (exit = "MinorIssue" <=> stderr # <<>>)
           /\ phase = "expanded" => (AnyFailure <=> stderr # <<>>)

WitC4 ==
    /\ phase = "expanded"
    /\ exit = "MinorIssue"
    /\ \E x \in Leveled(meta, 0) :
          /\ x[2] = 1 /\ x[1].content # None
          /\ \E e \in SetOf(read_dir(fs, x[1].path).entries) :
                fs[Last(e.path)].fault = "lstat"

\* ---------------------------------------------------------------- C5
FullyExpanded(m) ==
    \A x \in Leveled(m, 0) :
        (x[1].file_type.tag = "Directory" /\ ~IsPseudo(x[1]))
            => x[1].content # None

\* C5: for the same subtree, the size calculate_total_size gives a directory
\* it aggregates from its expanded content equals the size the fallback walk
\* calculate_total_file_size gives for it.
CexC5 ==
    (/\ phase = "sized"
     /\ meta.path = RootPath
     /\ meta.size # None
     /\ FullyExpanded(meta))
    => meta.size = Some(calculate_total_file_size(fs, meta.path).size)

\* ---------------------------------------------------------------- C6
\* calculate_total_file_size is called on node n in the walk from start.
RECURSIVE InWalk(_, _, _)
InWalk(f, n, start) ==
    \/ n = start
    \/ /\ n # Root
       /\ f[n].fault # "dirent"
       /\ f[f[n].parent].kind = "Dir"
       /\ f[f[n].parent].fault \notin {"lstat", "open"}
       /\ InWalk(f, f[n].parent, start)

RECURSIVE SumLen(_)
SumLen(S) ==
    IF S = {} THEN 0
    ELSE LET n == CHOOSE n \in S : TRUE IN LenOf(n) + SumLen(S \ {n})

Visited(f, start) == {n \in Ids(f) : InWalk(f, n, start)}
\* The nodes whose own length goes into the total.
Counted(f, start) ==
    {n \in Visited(f, start) : f[n].fault # "lstat" /\ f[n].kind \in {"File", "Dir"}}
\* The same, a directory that cannot be opened left out.
CountedWithoutFailing(f, start) ==
    {n \in Counted(f, start) : f[n].fault # "open"}
\* The number of failures the walk meets.
FailuresIn(f, start) ==
    Cardinality({n \in Visited(f, start) :
                    f[n].fault = "lstat" \/ (f[n].kind = "Dir" /\ f[n].fault = "open")})
    + Cardinality({n \in Ids(f) \ {Root} :
                    /\ f[n].fault = "dirent"
                    /\ f[n].parent \in Counted(f, start)
                    /\ f[f[n].parent].kind = "Dir"
                    /\ f[f[n].parent].fault # "open"})

\* The records calculate_total_size visits: it descends only through a
\* Directory record that has a size and a content list.
RECURSIVE Finalizable(_)
Finalizable(m) ==
    {m} \cup
    (IF m.size # None /\ m.file_type.tag = "Directory" /\ m.content # None
     THEN UNION {Finalizable(m.content[1][k]) : k \in DOMAIN m.content[1]}
     ELSE {})

\* The visited records that are sized by the fallback walk.
FallbackRecords ==
    {r \in Finalizable(meta) :
        /\ r.file_type.tag = "Directory"
        /\ r.content = None
        /\ r.size # None}

\* C6 as stated: every failing path of the fallback walk contributes zero.
CexC6 ==
    phase = "sized" =>
        \A r \in FallbackRecords :
            r.size = Some(SumLen(CountedWithoutFailing(fs, NodeOf(fs, r.path))))

\* C6 amended: in the fallback walk every failure is reported and the walk
\* goes on; a path that cannot be stat-ed and an entry that cannot be read
\* contribute zero, a directory that cannot be opened contributes its own
\* length and nothing for its entries.
InvC6 ==
    phase = "sized" =>
        /\ \A r \in FallbackRecords :
              r.size = Some(SumLen(Counted(fs, NodeOf(fs, r.path))))
        /\ (depth = 0 /\ meta.file_type.tag = "Directory") =>
              Len(stderr) = FailuresIn(fs, NodeOf(fs, meta.path))

WitC6 ==
    /\ phase = "sized"
    /\ depth = 0
    /\ \E n, m \in Ids(fs) :
          /\ n < m /\ fs[n].parent = Root /\ fs[m].parent = Root
          /\ fs[n].kind = "Dir" /\ fs[n].fault = "open"
          /\ fs[m].kind = "File" /\ fs[m].fault = "none"
          /\ meta.size = Some(LenOf(Root) + LenOf(n) + LenOf(m))

\* ---------------------------------------------------------------- C7
\* The filesystem with entry n withheld from its directory's stream.
Unlist(f, n) == [f EXCEPT ![n].listed = FALSE]

\* C7: an entry whose name the ignore-glob matcher accepts is in no content
\* list, and the content, the severity and the reports recurse_into returns
\* are those it returns when the directory stream does not hold the entry,
\* also when resolving or expanding the entry fails.
InvC7 ==
    phase \in {"expanded", "aborted"} =>
        /\ \A x \in Leveled(meta, 0) :
              x[2] >= 1 => x[1].name[1] \notin flags.ignore_globs
        /\ \A n \in Ids(fs) \ {Root} :
              (fs[n].name[1] \in flags.ignore_globs /\ fs[n].fault # "dirent") =>
                 LET g == Unlist(fs, n)
                     r == recurse_into(g, from_path(g, meta.path, flags.dereference).meta,
                                       depth, flags)
                 IN /\ r.ok <=> phase = "expanded"
                    /\ r.errs = stderr
                    /\ r.ok => (r.content = meta.content /\ r.code = exit)

WitC7 ==
    /\ phase = "expanded"
    /\ exit = "OK"
    /\ meta.content # None
    /\ meta.content[1] # <<>>
    /\ \E n \in Ids(fs) :
          /\ fs[n].parent = Root
          /\ fs[n].name[1] \in flags.ignore_globs
          /\ fs[n].fault = "lstat"

\* ---------------------------------------------------------------- C8
LinkToDir(path) ==
    /\ fs[NodeOf(fs, path)].kind = "Link"
    /\ metadata(fs, path) # NoMeta
    /\ fs[metadata(fs, path)].kind = "Dir"

\* C8 as stated: in OneLine layout a symlink to a directory is never
\* expanded, whatever the dereference flag.
CexC8 ==
    (Ran /\ flags.layout = "OneLine") =>
        \A x \in Leveled(meta, 0) :
            LinkToDir(x[1].path) => x[1].content = None

\* C8 amended: in OneLine layout a symlink to a directory resolved with
\* dereference = false has type SymLink and is never expanded; resolved with
\* dereference = true its record has type Directory and is expanded like
\* any directory.
InvC8 ==
    (Ran /\ flags.layout = "OneLine") =>
        \A x \in Leveled(meta, 0) :
            LinkToDir(x[1].path) =>
                /\ x[1].file_type.tag = "SymLink" => x[1].content = None
                /\ ~flags.dereference =>
                      x[1].file_type.tag = "SymLink" /\ x[1].content = None
                /\ flags.dereference =>
                      /\ x[1].file_type.tag = "Directory"
                      /\ (/\ ~IsPseudo(x[1])
                          /\ Expandable(x[1].file_type, depth - x[2], flags)
                          /\ read_dir(fs, x[1].path).ok)
                         => x[1].content # None

WitC8 ==
    /\ phase = "expanded"
    /\ flags.layout = "OneLine"
    /\ ~flags.dereference
    /\ depth > 0
    /\ flags.display # "DirectoryOnly"
    /\ meta.file_type = [tag |-> "SymLink", is_dir |-> TRUE]
    /\ meta.content = None

InvC10 ==
    /\ phase = "resolved" => ENABLED Expand
    /\ Ran => \A x \in Leveled(meta, 0) :
                 /\ x[2] <= depth
                 /\ x[2] = depth => x[1].content = None
    /\ (phase \in {"expanded", "aborted", "sized"} /\ depth = 0) =>
          /\ phase # "aborted"
          /\ meta.content = None
          /\ exit = "OK"

WitC10 ==
    /\ phase = "expanded"
    /\ flags.dereference
    /\ depth = MaxDepth
    /\ \E x \in Leveled(meta, 0) :
          /\ x[2] = depth
          /\ x[1].file_type.tag = "Directory"
          /\ LinkToDir(x[1].path)
          /\ metadata(fs, x[1].path) = Root

====
